---- MODULE Spec2Model ----
(***************************************************************************)
(* A model of the rs-lox front end: the character scanner                  *)
(* (src/src/scanner/mod.rs), the recursive-descent parser                  *)
(* (src/src/parser.rs) and the driver that hands the parser's outcome to   *)
(* the interpreter (src/src/user/mod.rs).                                  *)
(*                                                                         *)
(* Two specifications share the variables:                                 *)
(*   ScannerSpec  the scanner pulled token by token over a source text;    *)
(*   Spec         Parser::new, the parse_program loop, Parser::parse and   *)
(*                handle_parser_outcome over a token stream.               *)
(***************************************************************************)
EXTENDS Integers, Sequences, FiniteSets, TLC

VARIABLES
    \* ---- scanner (src/src/scanner/mod.rs) ----
    source,          \* the source text, a sequence of characters
    cursor,          \* Input: offset of the current character
    lexme_lo_bound,  \* Scanner.lexme_lo_bound
    done,            \* scan_tokens: the closure's `done` flag
    produced,        \* the items the iterator has yielded so far
    none_pulls,      \* how many pulls returned None
    \* ---- parser (src/src/parser.rs) and driver (src/src/user/mod.rs) ----
    tokens,          \* what the parser's scanner yields, Eof last
    repl_mode,       \* ParserOptions.repl_mode
    phase,           \* position of the driver
    parser,          \* the Parser struct
    stmts,           \* parse_program: the statements pushed so far
    outcome,         \* the ParserOutcome returned by Parser::parse
    interpreted,     \* the statements handed to Interpreter::interpret
    reported         \* the diagnostics printed by handle_parser_outcome

scanner_vars == <<source, cursor, lexme_lo_bound, done, produced, none_pulls>>
parser_vars == <<tokens, repl_mode, phase, parser, stmts, outcome, interpreted, reported>>
vars == <<source, cursor, lexme_lo_bound, done, produced, none_pulls,
          tokens, repl_mode, phase, parser, stmts, outcome, interpreted, reported>>

\* ------------------------------------------------------------------ bounds
\* Longest source text handed to the scanner.
MaxSrcLen == 4
\* Pulls made after the iterator is exhausted.
MaxNonePulls == 2

\* ------------------------------------------------------------------- spans
Min(a, b) == IF a <= b THEN a ELSE b
Max(a, b) == IF a >= b THEN a ELSE b

\* Span::new
Span(lo, hi) == [lo |-> lo, hi |-> hi]

\* Span::to, the merge of two spans.
to(a, b) == Span(Min(a.lo, b.lo), Max(a.hi, b.hi))

\* Span::updated, both ends moved by an offset.
updated(s, dlo, dhi) == Span(s.lo + dlo, s.hi + dhi)

\* =========================================================================
\* Scanner
\* =========================================================================

\* The characters of the model. "a" stands for any character the scanner has
\* no rule for, "(" for the single-character punctuation, "\n" for
\* whitespace. NUL is what Input yields at and beyond the end of the text.
NUL == "NUL"
SrcChars == {"(", "\"", "/", "<", ">", "!", "=", "\n", "a"}

is_whitespace(c) == c = "\n"

\* Input: the cursor over the source text, one character of lookahead.
CharAt(src, i) == IF i < Len(src) THEN src[i + 1] ELSE NUL
SpanAt(src, i) == IF i < Len(src) THEN Span(i, i + 1) ELSE Span(Len(src), Len(src))

input_current(src, i) == [span |-> SpanAt(src, i), char |-> CharAt(src, i)]
input_peek(src, i) == [span |-> SpanAt(src, i + 1), char |-> CharAt(src, i + 1)]
input_advance(src, i) == IF i < Len(src) THEN i + 1 ELSE i
input_finished(src, i) == i >= Len(src)
input_spanned(src, span) == SubSeq(src, span.lo + 1, span.hi)

\* A scanner is the source text, the cursor and the lexeme's lower bound.
Sc(src, i, lob) == [src |-> src, i |-> i, lob |-> lob]

peek_is(sc, expected) == input_peek(sc.src, sc.i).char = expected

\* peek_match: [sc, r], the cursor moved when the next character matches.
peek_match(sc, expected) ==
    IF input_peek(sc.src, sc.i).char # expected
    THEN [sc |-> sc, r |-> FALSE]
    ELSE [sc |-> [sc EXCEPT !.i = input_advance(sc.src, sc.i)], r |-> TRUE]

\* peek_expect: as peek_match, an error carrying the peeked span otherwise.
peek_expect(sc, expected) ==
    LET p == input_peek(sc.src, sc.i) IN
    IF p.char # expected
    THEN [sc |-> sc, ok |-> FALSE, span |-> p.span]
    ELSE [sc |-> [sc EXCEPT !.i = input_advance(sc.src, sc.i)], ok |-> TRUE, span |-> p.span]

peek_select(sc, expected, a, b) ==
    LET m == peek_match(sc, expected) IN
    [sc |-> m.sc, kind |-> IF m.r THEN a ELSE b]

\* The items the iterator yields: Ok(Token) and Err(message).
OkToken(kind, lit, span, lexme) ==
    [ok |-> TRUE, kind |-> kind, lit |-> lit, span |-> span, lexme |-> lexme]
ErrItem(message, at, span) ==
    [ok |-> FALSE, kind |-> message, lit |-> at, span |-> span, lexme |-> <<>>]

\* Scanner::token taking the span after the step forward.
token_late_span(sc, kind, lit) ==
    LET s2 == [sc EXCEPT !.i = input_advance(sc.src, sc.i)]
        span == to(sc.lob, input_current(s2.src, s2.i).span)
    IN [sc |-> s2, item |-> OkToken(kind, lit, span, input_spanned(sc.src, span))]

\* Scanner::token: the token from the lower bound to the current character,
\* then one step forward.
token(sc, kind, lit) ==
    LET span == to(sc.lob, input_current(sc.src, sc.i).span) IN
    [sc |-> [sc EXCEPT !.i = input_advance(sc.src, sc.i)],
     item |-> OkToken(kind, lit, span, input_spanned(sc.src, span))]

\* The loop of slash_or_comment: to the end of the line or of the text.
RECURSIVE CommentLoop(_)
CommentLoop(sc) ==
    IF ~peek_is(sc, "\n") /\ ~input_finished(sc.src, sc.i)
    THEN CommentLoop([sc EXCEPT !.i = input_advance(sc.src, sc.i)])
    ELSE sc

slash_or_comment(sc) ==
    LET m == peek_match(sc, "/") IN
    IF m.r
    THEN LET s2 == CommentLoop(m.sc)
             lit_span == updated(to(s2.lob, input_current(s2.src, s2.i).span), 2, 0)
         IN [sc |-> s2, kind |-> "Comment", lit |-> input_spanned(s2.src, lit_span)]
    ELSE [sc |-> m.sc, kind |-> "Slash", lit |-> <<>>]

\* The loop of string as a scanner that stops one character short of the
\* end of the text would run it.
RECURSIVE StringLoop_short(_)
StringLoop_short(sc) ==
    IF ~peek_is(sc, "\"") /\ input_peek(sc.src, sc.i).char # NUL
    THEN StringLoop_short([sc EXCEPT !.i = input_advance(sc.src, sc.i)])
    ELSE sc

\* The loop of string: to the closing quote or the end of the text.
RECURSIVE StringLoop(_)
StringLoop(sc) ==
    IF ~peek_is(sc, "\"") /\ ~input_finished(sc.src, sc.i)
    THEN StringLoop([sc EXCEPT !.i = input_advance(sc.src, sc.i)])
    ELSE sc

string(sc) ==
    LET s2 == StringLoop(sc)
        e == peek_expect(s2, "\"")
    IN IF ~e.ok
       THEN [sc |-> e.sc, ok |-> FALSE, kind |-> "Unterminated", lit |-> <<>>, at |-> e.span]
       ELSE LET lit_span == updated(to(e.sc.lob, input_current(e.sc.src, e.sc.i).span), 1, -1)
            IN [sc |-> e.sc, ok |-> TRUE, kind |-> "String",
                lit |-> input_spanned(e.sc.src, lit_span), at |-> e.span]

\* Scanner::scan_token: [sc, item].
scan_token(sc) ==
    LET cur == input_current(sc.src, sc.i)
        c == cur.char
        plain(kind) == token(sc, kind, <<>>)
        select(a, b) == LET s == peek_select(sc, "=", a, b) IN token(s.sc, s.kind, <<>>)
    IN CASE c = NUL -> plain("Eof")
         [] c = "(" -> plain("LeftParen")
         [] c = "\"" ->
                LET s == string(sc) IN
                IF s.ok THEN token(s.sc, s.kind, s.lit)
                ELSE [sc |-> s.sc,
                      item |-> ErrItem("Unterminated", s.at,
                                       to(s.sc.lob, input_current(s.sc.src, s.sc.i).span))]
         [] c = "/" -> LET s == slash_or_comment(sc) IN token(s.sc, s.kind, s.lit)
         [] c = "<" -> select("LessEqual", "Equal")
         [] c = ">" -> select("GreaterEqual", "Greater")
         [] c = "!" -> select("BangEqual", "Bang")
         [] c = "=" -> select("EqualEqual", "Equal")
         [] is_whitespace(c) -> plain("Whitespace")
         [] OTHER ->
                [sc |-> [sc EXCEPT !.i = input_advance(sc.src, sc.i)],
                 item |-> ErrItem("Unexpected", cur.span, cur.span)]

\* Scanner::new: the cursor on the first character, the lower bound at 0.
ScannerNew(src) == Sc(src, 0, Span(0, 0))

Sources == UNION {[1..n -> SrcChars] : n \in 0..MaxSrcLen}

\* The parser takes no part in ScannerSpec.
ParserIdle ==
    /\ tokens = <<>>
    /\ repl_mode = FALSE
    /\ phase = "idle"
    /\ parser = <<>>
    /\ stmts = <<>>
    /\ outcome = <<>>
    /\ interpreted = <<>>
    /\ reported = <<>>

ScannerInit ==
    /\ source \in Sources
    /\ cursor = ScannerNew(source).i
    /\ lexme_lo_bound = ScannerNew(source).lob
    /\ done = FALSE
    /\ produced = <<>>
    /\ none_pulls = 0
    /\ ParserIdle

\* scan_tokens with a closure that never sets `done`.
EofSeen_never(item) == FALSE

\* scan_tokens: the closure sets `done` on the Eof token.
EofSeen(item) == item.ok /\ item.kind = "Eof"

\* scan_tokens, a pull once the iterator is done: None.
PullDone ==
    /\ done
    /\ none_pulls < MaxNonePulls
    /\ none_pulls' = none_pulls + 1
    /\ UNCHANGED <<source, cursor, lexme_lo_bound, done, produced>>
    /\ UNCHANGED parser_vars

\* scan_tokens, a pull that scans: one item, and the next lexeme starts at the
\* cursor.
PullScan ==
    /\ ~done
    /\ \E r \in {scan_token(Sc(source, cursor, lexme_lo_bound))} :
        /\ done' = EofSeen(r.item)
        /\ cursor' = r.sc.i
        /\ lexme_lo_bound' = input_current(source, r.sc.i).span
        /\ produced' = Append(produced, r.item)
    /\ UNCHANGED <<source, none_pulls>>
    /\ UNCHANGED parser_vars

ScannerNext == PullScan \/ PullDone

ScannerSpec == ScannerInit /\ [][ScannerNext]_vars

\* ------------------------------------------------------- scanner claims
IsEof(item) == item.ok /\ item.kind = "Eof"
EofAt == {i \in 1..Len(produced) : IsEof(produced[i])}

\* C4: the items the scanner yields hold at most one Eof, an Eof is the last
\* item and is there exactly when the iterator is done, None is returned only
\* once Eof was yielded, and a pull of the done iterator returns None and
\* leaves the cursor, the lower bound and the yielded items as they are.
C4_EofOnceAndLast ==
    /\ [](/\ Cardinality(EofAt) <= 1
          /\ \A i \in EofAt : i = Len(produced)
          /\ done <=> (EofAt # {})
          /\ none_pulls > 0 => done)
    /\ [][done => /\ produced' = produced
                  /\ cursor' = cursor
                  /\ lexme_lo_bound' = lexme_lo_bound
                  /\ done'
                  /\ none_pulls' = none_pulls + 1]_vars

\* C4 witness: a text of several lexemes was scanned to its Eof and pulled
\* again.
C4_Witness == done /\ none_pulls > 0 /\ Len(produced) >= 3

\* C5: every pull that scans a lexeme, token or error, moves the cursor
\* forward by at least one character; the pull made at the end of the text
\* yields Eof; so a text of n characters yields at most n items before Eof.
C5_CursorAdvances ==
    /\ [][(~done /\ ~input_finished(source, cursor)) => cursor' >= cursor + 1]_vars
    /\ [][(~done /\ input_finished(source, cursor)) => done']_vars
    /\ [](cursor <= Len(source) /\ Len(produced) <= Len(source) + 1)

\* C5 witness: the text is a lone quote, scanned as an unterminated string,
\* and Eof followed.
C5_Witness ==
    /\ source = <<"\"">>
    /\ done
    /\ Len(produced) = 2
    /\ ~produced[1].ok /\ produced[1].kind = "Unterminated"

\* The kinds C6 names for each of the four characters.
SingleKind(c) ==
    CASE c = "<" -> "Less" [] c = ">" -> "Greater" [] c = "!" -> "Bang" [] c = "=" -> "Equal"
DoubleKind(c) ==
    CASE c = "<" -> "LessEqual" [] c = ">" -> "GreaterEqual"
      [] c = "!" -> "BangEqual" [] c = "=" -> "EqualEqual"

\* C6: a lexeme that starts with one of < > ! = is the two-character
\* operator, both characters consumed, when `=` follows, and the
\* single-character operator of that character, one character consumed,
\* otherwise.
C6_TwoCharOperators ==
    \A i \in 1..Len(produced) :
        LET it == produced[i]
            c == CharAt(source, it.span.lo)
        IN (c \in {"<", ">", "!", "="}) =>
              IF CharAt(source, it.span.lo + 1) = "="
              THEN it.ok /\ it.kind = DoubleKind(c) /\ it.span.hi = it.span.lo + 2
              ELSE it.ok /\ it.kind = SingleKind(c) /\ it.span.hi = it.span.lo + 1

\* C7: the first lexeme starts at offset 0, every later one starts where the
\* one before it ended, the next lexeme will start where the last one ended,
\* and once Eof is yielded the lexemes cover the whole text. The span of a
\* token is Token.span; of an unexpected character, the character's span; of
\* an unterminated string, the text from the lower bound to the cursor.
C7_LexemesPartition ==
    /\ \A i \in 1..Len(produced) :
          /\ produced[i].span.lo = (IF i = 1 THEN 0 ELSE produced[i - 1].span.hi)
          /\ produced[i].span.lo <= produced[i].span.hi
          /\ ~IsEof(produced[i]) => produced[i].span.lo < produced[i].span.hi
    /\ lexme_lo_bound.lo = (IF produced = <<>> THEN 0 ELSE produced[Len(produced)].span.hi)
    /\ done => produced[Len(produced)].span.hi = Len(source)

\* C7 witness: a scan to Eof that yielded a token of two characters, an
\* erroneous lexeme and then a token.
C7_Witness ==
    /\ done
    /\ \E i \in 1..Len(produced) :
          /\ i + 2 <= Len(produced)
          /\ produced[i].ok /\ produced[i].span.hi = produced[i].span.lo + 2
          /\ ~produced[i + 1].ok
          /\ produced[i + 2].ok /\ ~IsEof(produced[i + 2])


\* =========================================================================
\* Parser
\* =========================================================================

\* A token: kind, lexeme and span. The lexeme stands for the data of the kind
\* too: the name of an Identifier, the message of an Error.
Tok(kind, lexme, span) == [kind |-> kind, lexme |-> lexme, span |-> span]

\* Token::dummy, the placeholder Parser::new starts from.
TokenDummy == Tok("Dummy", "", Span(0, 0))

\* Option::None
None == [kind |-> "None"]

\* S_MUST, the message of an expectation the grammar guarantees.
S_MUST == "@@must"

\* TokenKind::get_pair, the closing delimiter of an opening one.
get_pair(kind) ==
    CASE kind = "LeftParen" -> "RightParen"
      [] kind = "LeftBrace" -> "RightBrace"

\* The results of the parse_* methods: the parser after the call and
\* Ok(val) or Err(val).
Ok(p, v) == [p |-> p, ok |-> TRUE, val |-> v]
Err(p, e) == [p |-> p, ok |-> FALSE, val |-> e]

\* ParseError::ScannerError of an Error token.
ScannerError(t) == [kind |-> "ScannerError", message |-> t.lexme, span |-> t.span]

\* Parser::advance letting Error tokens through without a diagnostic.
RECURSIVE advance_silent(_)
advance_silent(p) ==
    IF p.scanner > Len(tokens)
    THEN [p EXCEPT !.panicked = TRUE]
    ELSE LET maybe_next == tokens[p.scanner]
             p1 == [p EXCEPT !.scanner = @ + 1]
         IN IF maybe_next.kind \in {"Error", "Comment", "Whitespace"}
            THEN advance_silent(p1)
            ELSE [p1 EXCEPT !.prev_token = p.current_token, !.current_token = maybe_next]

\* Parser::advance: pull until a token that is no Error, Comment or
\* Whitespace; an Error token becomes a ScannerError diagnostic. Pulling when
\* the scanner has nothing left is the `Cannot advance past Eof.` panic.
RECURSIVE advance(_)
advance(p) ==
    IF p.scanner > Len(tokens)
    THEN [p EXCEPT !.panicked = TRUE]
    ELSE LET maybe_next == tokens[p.scanner]
             p1 == [p EXCEPT !.scanner = @ + 1]
         IN IF maybe_next.kind = "Error"
            THEN advance([p1 EXCEPT !.diagnostics = Append(@, ScannerError(maybe_next))])
            ELSE IF maybe_next.kind \in {"Comment", "Whitespace"}
            THEN advance(p1)
            ELSE [p1 EXCEPT !.prev_token = p.current_token, !.current_token = maybe_next]

\* Parser::is
is(p, expected) == p.current_token.kind = expected

\* Parser::is_at_end
is_at_end(p) == p.current_token.kind = "Eof"

\* Parser::take: [p, r].
take(p, expected) ==
    IF is(p, expected) THEN [p |-> advance(p), r |-> TRUE] ELSE [p |-> p, r |-> FALSE]

\* Parser::unexpected
unexpected(p, message, expected) ==
    [kind |-> "UnexpectedToken",
     message |-> IF message = S_MUST THEN "Parser bug. Unexpected token" ELSE message,
     expected |-> expected,
     offending |-> p.current_token]

\* Parser::consume: the consumed token, or an expectation error.
consume(p, expected, msg) ==
    IF is(p, expected)
    THEN LET p1 == advance(p) IN Ok(p1, p1.prev_token)
    ELSE Err(p, unexpected(p, msg, expected))

\* Parser::synchronize
RECURSIVE SynchronizeLoop(_)
\* The loop of synchronize without its test of the end of input.
SynchronizeLoop_no_end_test(p) ==
    IF p.panicked
    THEN p
    ELSE IF \/ p.prev_token.kind = "Semicolon"
            \/ p.current_token.kind \in
                 {"Class", "For", "Fun", "If", "Print", "Return", "Var", "While"}
         THEN p
         ELSE SynchronizeLoop(advance(p))

SynchronizeLoop(p) ==
    IF is_at_end(p) \/ p.panicked
    THEN p
    ELSE IF \/ p.prev_token.kind = "Semicolon"
            \/ p.current_token.kind \in
                 {"Class", "For", "Fun", "If", "Print", "Return", "Var", "While"}
         THEN p
         ELSE SynchronizeLoop(advance(p))

\* synchronize without the advancement made before the loop.
synchronize_no_first_advance(p) == IF is_at_end(p) THEN p ELSE SynchronizeLoop(p)

synchronize(p) == IF is_at_end(p) THEN p ELSE SynchronizeLoop(advance(p))

\* ------------------------------------------------------------ expressions
\* Lit::from(token): the value of a literal token.
LitValue(t) ==
    CASE t.kind = "True" -> "true"
      [] t.kind = "False" -> "false"
      [] t.kind = "Nil" -> "nil"
      [] OTHER -> t.lexme

RECURSIVE Call(_, _), BinLoop(_, _, _), bin_expr(_, _), parse_unary(_), BlockLoop(_, _)

\* A `let`: v is evaluated once and its value handed to what follows.
Let(v, K(_)) == CHOOSE y \in {K(x) : x \in {v}} : TRUE

\* The `?` operator: the continuation K on Ok(_), the error returned as it is.
Bind(r, K(_)) == CHOOSE y \in {IF x.ok THEN K(x) ELSE x : x \in {r}} : TRUE

\* Parser::paired_spanned: Ok([ret, span]); `inner` names the closure.
paired_spanned(p, delim_start, delim_start_expectation, delim_end_expectation, inner) ==
    Bind(consume(p, delim_start, delim_start_expectation), LAMBDA start :
    Bind(Call(start.p, inner), LAMBDA ret :
    Bind(consume(ret.p, get_pair(delim_start), delim_end_expectation), LAMBDA end :
    Ok(end.p, [ret |-> ret.val, span |-> to(start.val.span, end.val.span)]))))

\* Parser::paired: paired_spanned without the span.
paired(p, delim_start, delim_start_expectation, delim_end_expectation, inner) ==
    Bind(paired_spanned(p, delim_start, delim_start_expectation,
                        delim_end_expectation, inner),
         LAMBDA r : Ok(r.p, r.val.ret))

parse_primary(p) ==
    CASE p.current_token.kind \in {"String", "Number", "True", "False", "Nil"} ->
            Let(advance(p), LAMBDA p1 :
            Ok(p1, [kind |-> "Lit", value |-> LitValue(p1.prev_token),
                    span |-> p1.prev_token.span]))
      [] p.current_token.kind = "Identifier" ->
            Let(advance(p), LAMBDA p1 :
            Ok(p1, [kind |-> "Var", name |-> p.current_token.lexme,
                    span |-> p1.prev_token.span]))
      [] p.current_token.kind = "LeftParen" ->
            Bind(paired_spanned(p, "LeftParen", S_MUST, "Expected group to be closed",
                                "parse_expr"),
                 LAMBDA g : Ok(g.p, [kind |-> "Group", expr |-> g.val.ret,
                                     span |-> g.val.span]))
      [] OTHER -> Err(p, unexpected(p, "Expected any expression", "None"))

parse_unary(p) ==
    IF p.current_token.kind \in {"Bang", "Minus", "Typeof", "Show"}
    THEN Let(advance(p), LAMBDA p1 :
         Bind(parse_unary(p1), LAMBDA operand :
         Ok(operand.p, [kind |-> "Unary", operator |-> p1.prev_token,
                        operand |-> operand.val,
                        span |-> to(p1.prev_token.span, operand.val.span)])))
    ELSE parse_primary(p)

\* The levels of binary operators, lowest first: parse_or, parse_and,
\* parse_equality, parse_comparison, parse_term, parse_factor.
LevelKinds(level) ==
    CASE level = 1 -> {"Or"}
      [] level = 2 -> {"And"}
      [] level = 3 -> {"EqualEqual", "BangEqual"}
      [] level = 4 -> {"Greater", "GreaterEqual", "Less", "LessEqual"}
      [] level = 5 -> {"Plus", "Minus"}
      [] level = 6 -> {"Star", "Slash"}
LevelAst(level) == IF level <= 2 THEN "Logical" ELSE "Binary"

\* next_production of a level: the next level, parse_unary after the last.
NextProduction(p, level) == IF level = 6 THEN parse_unary(p) ELSE bin_expr(p, level + 1)

\* bin_expr!: the loop that folds the operands to the left.
BinLoop(p, expr, level) ==
    IF p.current_token.kind \in LevelKinds(level)
    THEN Let(advance(p), LAMBDA p1 :
         Bind(NextProduction(p1, level), LAMBDA right :
         BinLoop(right.p,
                 [kind |-> LevelAst(level), left |-> expr, operator |-> p1.prev_token,
                  right |-> right.val, span |-> to(expr.span, right.val.span)],
                 level)))
    ELSE Ok(p, expr)

bin_expr(p, level) ==
    Bind(NextProduction(p, level), LAMBDA first : BinLoop(first.p, first.val, level))

parse_or(p) == bin_expr(p, 1)
parse_and(p) == bin_expr(p, 2)
parse_equality(p) == bin_expr(p, 3)
parse_comparison(p) == bin_expr(p, 4)
parse_term(p) == bin_expr(p, 5)
parse_factor(p) == bin_expr(p, 6)

\* parse_assignment pointing the error at the whole assignment.
parse_assignment_whole_span(p) ==
    Bind(parse_or(p), LAMBDA left :
    Let(take(left.p, "Equal"), LAMBDA t :
    IF ~t.r THEN left ELSE
    Bind(Call(t.p, "parse_assignment"), LAMBDA value :
    IF left.val.kind = "Var"
    THEN Ok(value.p, [kind |-> "Assignment", name |-> left.val.name,
                      name_span |-> left.val.span, value |-> value.val,
                      span |-> to(left.val.span, value.val.span)])
    ELSE Err(value.p, [kind |-> "Error", message |-> "Invalid assignment target",
                       span |-> to(left.val.span, value.val.span)]))))

\* Parser::parse_assignment
parse_assignment(p) ==
    Bind(parse_or(p), LAMBDA left :
    Let(take(left.p, "Equal"), LAMBDA t :
    IF ~t.r THEN left ELSE
    Bind(Call(t.p, "parse_assignment"), LAMBDA value :
    IF left.val.kind = "Var"
    THEN Ok(value.p, [kind |-> "Assignment", name |-> left.val.name,
                      name_span |-> left.val.span, value |-> value.val,
                      span |-> to(left.val.span, value.val.span)])
    ELSE Err(value.p, [kind |-> "Error", message |-> "Invalid assignment target",
                       span |-> left.val.span]))))

parse_expr(p) == parse_assignment(p)

\* ------------------------------------------------------------- statements
\* parse_var_decl after the name: the initializer, `;`, the statement.
VarDeclRest(p1, var_span, name) ==
    Let(take(p1, "Equal"), LAMBDA eq :
    Bind(IF eq.r THEN Call(eq.p, "parse_expr") ELSE Ok(eq.p, None), LAMBDA init :
    Bind(consume(init.p, "Semicolon", "Expected ';' after variable declaration"),
         LAMBDA semicolon :
    Ok(semicolon.p, [kind |-> "Var", name |-> name, name_span |-> p1.prev_token.span,
                     init |-> init.val, span |-> to(var_span, semicolon.val.span)]))))

parse_var_decl(p) ==
    Bind(consume(p, "Var", S_MUST), LAMBDA var :
    IF var.p.current_token.kind # "Identifier"
    THEN Err(var.p, unexpected(var.p, "Expected variable name", "Identifier"))
    ELSE VarDeclRest(advance(var.p), var.val.span, var.p.current_token.lexme))

parse_print_stmt(p) ==
    Bind(consume(p, "Print", S_MUST), LAMBDA print_token :
    Bind(Call(print_token.p, "parse_expr"), LAMBDA expr :
    Bind(consume(expr.p, "Semicolon", "Expected ';' after value"), LAMBDA semicolon :
    Ok(semicolon.p, [kind |-> "Print", expr |-> expr.val, debug |-> FALSE,
                     span |-> to(print_token.val.span, semicolon.val.span)]))))

\* parse_expr_stmt making the debug print in file mode too.
parse_expr_stmt_any_mode(p) ==
    Bind(Call(p, "parse_expr"), LAMBDA expr :
    IF is_at_end(expr.p)
    THEN Ok(expr.p, [kind |-> "Print", expr |-> expr.val, debug |-> TRUE,
                     span |-> expr.val.span])
    ELSE
    Bind(consume(expr.p, "Semicolon", "Expected ';' after expression"), LAMBDA semicolon :
    Ok(semicolon.p, [kind |-> "Expr", expr |-> expr.val,
                     span |-> to(expr.val.span, semicolon.val.span)])))

\* Parser::parse_expr_stmt
parse_expr_stmt(p) ==
    Bind(Call(p, "parse_expr"), LAMBDA expr :
    IF repl_mode /\ is_at_end(expr.p)
    THEN Ok(expr.p, [kind |-> "Print", expr |-> expr.val, debug |-> TRUE,
                     span |-> expr.val.span])
    ELSE
    Bind(consume(expr.p, "Semicolon", "Expected ';' after expression"), LAMBDA semicolon :
    Ok(semicolon.p, [kind |-> "Expr", expr |-> expr.val,
                     span |-> to(expr.val.span, semicolon.val.span)])))

parse_if_stmt(p) ==
    Bind(consume(p, "If", S_MUST), LAMBDA if_token :
    Bind(paired(if_token.p, "LeftParen", "Expected 'if' condition group opening",
                "Expected 'if' condition group to be closed", "parse_expr"), LAMBDA cond :
    Bind(Call(cond.p, "parse_stmt"), LAMBDA then_branch :
    Let(take(then_branch.p, "Else"), LAMBDA else_token :
    Bind(IF else_token.r THEN Call(else_token.p, "parse_stmt")
         ELSE Ok(else_token.p, None), LAMBDA else_branch :
    Ok(else_branch.p,
       [kind |-> "If", cond |-> cond.val, then_branch |-> then_branch.val,
        else_branch |-> else_branch.val,
        span |-> to(if_token.val.span,
                    IF else_branch.val = None THEN then_branch.val.span
                    ELSE else_branch.val.span)]))))))

\* The closure of parse_for_stmt giving the synthetic condition the span of
\* the `;` token instead of its start.
for_clauses_wide_span(p) ==
    Bind(CASE p.current_token.kind = "Semicolon" -> Ok(advance(p), None)
           [] p.current_token.kind = "Var" -> Call(p, "parse_var_decl")
           [] OTHER -> Call(p, "parse_expr_stmt"), LAMBDA init :
    Bind(IF init.p.current_token.kind = "Semicolon"
         THEN Ok(init.p, [kind |-> "Lit", value |-> "true",
                          span |-> init.p.current_token.span])
         ELSE Call(init.p, "parse_expr"), LAMBDA cond :
    Bind(consume(cond.p, "Semicolon", "Expected ';' after 'for' condition"),
         LAMBDA semicolon :
    Bind(IF semicolon.p.current_token.kind = "RightParen" THEN Ok(semicolon.p, None)
         ELSE Call(semicolon.p, "parse_expr"), LAMBDA incr :
    Ok(incr.p, [init |-> init.val, cond |-> cond.val, incr |-> incr.val])))))

\* The closure of parse_for_stmt: Ok([init, cond, incr]).
for_clauses(p) ==
    Bind(CASE p.current_token.kind = "Semicolon" -> Ok(advance(p), None)
           [] p.current_token.kind = "Var" -> Call(p, "parse_var_decl")
           [] OTHER -> Call(p, "parse_expr_stmt"), LAMBDA init :
    Bind(IF init.p.current_token.kind = "Semicolon"
         THEN Ok(init.p, [kind |-> "Lit", value |-> "true",
                          span |-> Span(init.p.current_token.span.lo,
                                        init.p.current_token.span.lo)])
         ELSE Call(init.p, "parse_expr"), LAMBDA cond :
    Bind(consume(cond.p, "Semicolon", "Expected ';' after 'for' condition"),
         LAMBDA semicolon :
    Bind(IF semicolon.p.current_token.kind = "RightParen" THEN Ok(semicolon.p, None)
         ELSE Call(semicolon.p, "parse_expr"), LAMBDA incr :
    Ok(incr.p, [init |-> init.val, cond |-> cond.val, incr |-> incr.val])))))

\* The `for` desugaring with the increment put before the body.
desugar_incr_first(for_token_span, init, cond, incr, body) ==
    Let(IF incr # None
        THEN [kind |-> "Block",
              stmts |-> <<[kind |-> "Expr", expr |-> incr, span |-> incr.span], body>>,
              span |-> body.span]
        ELSE body, LAMBDA body1 :
    Let([kind |-> "While", cond |-> cond, body |-> body1,
         span |-> to(for_token_span, body1.span)], LAMBDA body2 :
    IF init # None
    THEN [kind |-> "Block", stmts |-> <<init, body2>>, span |-> body2.span]
    ELSE body2))

\* parse_for_stmt, the desugaring: the body and the increment in a block,
\* that in a while, the initializer and the while in a block.
desugar(for_token_span, init, cond, incr, body) ==
    Let(IF incr # None
        THEN [kind |-> "Block",
              stmts |-> <<body, [kind |-> "Expr", expr |-> incr, span |-> incr.span]>>,
              span |-> body.span]
        ELSE body, LAMBDA body1 :
    Let([kind |-> "While", cond |-> cond, body |-> body1,
         span |-> to(for_token_span, body1.span)], LAMBDA body2 :
    IF init # None
    THEN [kind |-> "Block", stmts |-> <<init, body2>>, span |-> body2.span]
    ELSE body2))

parse_for_stmt(p) ==
    Bind(consume(p, "For", S_MUST), LAMBDA for_token :
    Bind(paired(for_token.p, "LeftParen", "Expected 'for' clauses group opening",
                "Expected 'for' clauses group to be closed", "for_clauses"),
         LAMBDA clauses :
    Bind(Call(clauses.p, "parse_stmt"), LAMBDA body :
    Ok(body.p, desugar(for_token.val.span, clauses.val.init, clauses.val.cond,
                       clauses.val.incr, body.val)))))

parse_while_stmt(p) ==
    Bind(consume(p, "While", S_MUST), LAMBDA while_token :
    Bind(paired(while_token.p, "LeftParen", "Expected 'while' condition group opening",
                "Expected 'while' condition group to be closed", "parse_expr"),
         LAMBDA cond :
    Bind(Call(cond.p, "parse_stmt"), LAMBDA body :
    Ok(body.p, [kind |-> "While", cond |-> cond.val, body |-> body.val,
                span |-> to(while_token.val.span, body.val.span)]))))

\* The closure of parse_block: declarations up to `}` or the end.
BlockLoop(p, acc) ==
    IF ~is(p, "RightBrace") /\ ~is_at_end(p)
    THEN Bind(Call(p, "parse_decl"), LAMBDA d : BlockLoop(d.p, Append(acc, d.val)))
    ELSE Ok(p, acc)

parse_block(p) ==
    paired_spanned(p, "LeftBrace", "Expected block to be opened",
                   "Expected block to be closed", "block")

parse_stmt(p) ==
    CASE p.current_token.kind = "If" -> parse_if_stmt(p)
      [] p.current_token.kind = "For" -> parse_for_stmt(p)
      [] p.current_token.kind = "While" -> parse_while_stmt(p)
      [] p.current_token.kind = "Print" -> parse_print_stmt(p)
      [] p.current_token.kind = "LeftBrace" ->
            Bind(parse_block(p), LAMBDA b :
            Ok(b.p, [kind |-> "Block", stmts |-> b.val.ret, span |-> b.val.span]))
      [] OTHER -> parse_expr_stmt(p)

\* parse_decl consuming `var` itself and entering parse_var_decl after it.
parse_decl(p) ==
    IF p.current_token.kind = "Var"
    THEN parse_var_decl(advance(p))
    ELSE parse_stmt(p)

\* A call of a production, or of a closure handed to paired_spanned, by name.
Call(p, production) ==
    CASE production = "parse_expr" -> parse_expr(p)
      [] production = "parse_assignment" -> parse_assignment(p)
      [] production = "parse_decl" -> parse_decl(p)
      [] production = "parse_var_decl" -> parse_var_decl(p)
      [] production = "parse_stmt" -> parse_stmt(p)
      [] production = "for_clauses" -> for_clauses(p)
      [] production = "block" -> BlockLoop(p, <<>>)
      [] production = "parse_expr_stmt" -> parse_expr_stmt(p)

\* ---------------------------------------------------------------- program
\* Parser::new: the first advancement from the dummy tokens.
ParserNew ==
    advance([scanner |-> 1, current_token |-> TokenDummy, prev_token |-> TokenDummy,
             diagnostics |-> <<>>, panicked |-> FALSE])

\* parse_program dropping the error of a failed declaration.
program_step_drop_error(p) ==
    Let(parse_decl(p), LAMBDA d :
    IF d.ok
    THEN [p |-> d.p, stmt |-> d.val]
    ELSE Let(synchronize(d.p), LAMBDA p1 :
         [p |-> p1,
          stmt |-> [kind |-> "Dummy",
                    span |-> Span(p1.current_token.span.hi, p1.current_token.span.hi)]]))

\* parse_program, one turn of the loop: [p, stmt], the statement pushed being
\* the declaration, or the Dummy placed after recording its error and
\* synchronizing.
program_step(p) ==
    Let(parse_decl(p), LAMBDA d :
    IF d.ok
    THEN [p |-> d.p, stmt |-> d.val]
    ELSE Let(synchronize([d.p EXCEPT !.diagnostics = Append(@, d.val)]), LAMBDA p1 :
         [p |-> p1,
          stmt |-> [kind |-> "Dummy",
                    span |-> Span(p1.current_token.span.hi, p1.current_token.span.hi)]]))

\* ParseError::allows_continuation: the error is one that more input may fix,
\* an unexpected end of input or an unterminated string.
allows_continuation(error) ==
    \/ error.kind = "UnexpectedToken" /\ error.offending.kind = "Eof"
    \/ error.kind = "ScannerError" /\ error.message = "Unterminated string"

\* The flag of Parser::parse without the test that there is one diagnostic.
allow_continuation_any_count(p) ==
    /\ repl_mode
    /\ p.current_token.kind = "Eof"
    /\ p.diagnostics # <<>>
    /\ allows_continuation(p.diagnostics[Len(p.diagnostics)])

\* Parser::parse, the flag computed after parse_program.
allow_continuation(p) ==
    /\ repl_mode
    /\ p.current_token.kind = "Eof"
    /\ Len(p.diagnostics) = 1
    /\ allows_continuation(p.diagnostics[Len(p.diagnostics)])


\* Parser::parse: the ParserOutcome.
parse(p, statements) ==
    [stmts |-> statements, diagnostics |-> p.diagnostics,
     continuation |-> allow_continuation(p)]

\* handle_parser_outcome running the interpreter whatever the diagnostics.
handle_parser_outcome_always(out, fails) ==
    [interpreted |-> <<out.stmts>>, reported |-> out.diagnostics]

\* handle_parser_outcome: [interpreted, reported], the calls of
\* Interpreter::interpret and what is printed; `fails` is whether the
\* interpreter returns an error.
handle_parser_outcome(out, fails) ==
    IF out.diagnostics = <<>>
    THEN [interpreted |-> <<out.stmts>>,
          reported |-> IF fails THEN <<[kind |-> "RuntimeError"]>> ELSE <<>>]
    ELSE [interpreted |-> <<>>, reported |-> out.diagnostics]

\* ----------------------------------------------------------------- inputs
\* Tokens of statements put side by side in generated programs.
MaxTail == 1
\* Longest token stream drawn from the whole small alphabet.
MaxLen == 3
\* Most groups opened in such a stream.
MaxGroups == 1

\* What the scanner yields for a token, before its span: kind and lexeme.
I(kind, lexme) == [kind |-> kind, lexme |-> lexme]
tVar == I("Var", "var")
tX == I("Identifier", "x")
tY == I("Identifier", "y")
tNum == I("Number", "1")
tStr == I("String", "s")
tTrue == I("True", "true")
tNil == I("Nil", "nil")
tEq == I("Equal", "=")
tSemi == I("Semicolon", ";")
tPrint == I("Print", "print")
tPlus == I("Plus", "+")
tMinus == I("Minus", "-")
tStar == I("Star", "*")
tBang == I("Bang", "!")
tLess == I("Less", "<")
tEqEq == I("EqualEqual", "==")
tOr == I("Or", "or")
tAnd == I("And", "and")
tLP == I("LeftParen", "(")
tRP == I("RightParen", ")")
tLB == I("LeftBrace", "{")
tRB == I("RightBrace", "}")
tIf == I("If", "if")
tElse == I("Else", "else")
tWhile == I("While", "while")
tFor == I("For", "for")
tClass == I("Class", "class")
tFun == I("Fun", "fun")
tReturn == I("Return", "return")
tWs == I("Whitespace", " ")
tComment == I("Comment", "c")
tBadChar == I("Error", "Unexpected character")
tBadStr == I("Error", "Unterminated string")

\* The token stream of a sequence of items: token i spans two bytes from
\* 3 * (i - 1), one byte apart from the next, and Eof sits at the end.
MkTokens(items) ==
    [i \in 1..(Len(items) + 1) |->
        IF i <= Len(items)
        THEN Tok(items[i].kind, items[i].lexme, Span(3 * (i - 1), 3 * (i - 1) + 2))
        ELSE Tok("Eof", "", Span(3 * Len(items), 3 * Len(items)))]

\* Expressions of the grammar.
Exprs ==
    {<<tX>>, <<tNum, tPlus, tX>>, <<tX, tEq, tNum>>, <<tLP, tX, tRP>>, <<tMinus, tX>>,
     <<tX, tLess, tNum>>, <<tX, tOr, tNum, tAnd, tX>>, <<tNum, tEqEq, tX, tStar, tNum>>,
     <<tStr>>, <<tBang, tTrue>>, <<tX, tEq, tY, tEq, tNil>>}
FewExprs == {<<tX>>, <<tX, tLess, tNum>>}

\* Statements and declarations of the grammar.
VarDecls == {<<tVar, tX, tSemi>>} \cup {<<tVar, tX, tEq>> \o e \o <<tSemi>> : e \in FewExprs}
ExprStmts == {e \o <<tSemi>> : e \in Exprs}
PrintStmts == {<<tPrint>> \o e \o <<tSemi>> : e \in Exprs}
FewStmts == {<<tPrint, tX, tSemi>>, <<tX, tEq, tNum, tSemi>>}
Blocks ==
    {<<tLB, tRB>>} \cup {<<tLB>> \o s \o <<tRB>> : s \in FewStmts \cup VarDecls}
                   \cup {<<tLB>> \o s \o t \o <<tRB>> : s \in FewStmts, t \in FewStmts}
IfStmts ==
    {<<tIf, tLP>> \o e \o <<tRP>> \o s : e \in FewExprs, s \in FewStmts}
    \cup {<<tIf, tLP, tX, tRP>> \o s \o <<tElse>> \o t : s \in FewStmts, t \in FewStmts}
WhileStmts == {<<tWhile, tLP>> \o e \o <<tRP>> \o s : e \in FewExprs, s \in FewStmts}

\* The clauses and bodies of the `for` statements of the model.
ForInits == {<<tSemi>>, <<tVar, tX, tEq, tNum, tSemi>>, <<tX, tEq, tNum, tSemi>>}
ForConds == {<<>>, <<tX, tLess, tNum>>}
ForIncrs == {<<>>, <<tX, tEq, tX, tPlus, tNum>>}
ForBodies == {<<tPrint, tX, tSemi>>, <<tLB, tPrint, tX, tSemi, tRB>>, <<tX, tSemi>>}
ForItems(init, cond, incr, body) ==
    <<tFor, tLP>> \o init \o cond \o <<tSemi>> \o incr \o <<tRP>> \o body
ForStmts ==
    {ForItems(init, cond, incr, body) :
        init \in ForInits, cond \in ForConds, incr \in ForIncrs, body \in ForBodies}

ValidStmts ==
    VarDecls \cup ExprStmts \cup PrintStmts \cup Blocks \cup IfStmts \cup WhileStmts
             \cup ForStmts

\* Well-formed statements that follow another statement.
TailStmts == {<<tPrint, tX, tSemi>>, <<tX, tEq, tNum, tSemi>>, <<tVar, tX, tSemi>>}
RECURSIVE Tails(_)
Tails(n) ==
    IF n = 0 THEN {<<>>}
    ELSE Tails(n - 1) \cup {s \o t : s \in TailStmts, t \in Tails(n - 1)}

\* Programs of the grammar: statements, then end of input; some with the
\* whitespace and comments the parser skips.
ValidPrograms ==
    {<<>>, <<tWs>>, <<tComment, tPrint, tWs, tX, tSemi, tWs>>}
    \cup {s \o t : s \in ValidStmts, t \in Tails(MaxTail)}

\* Statements with one error before their `;`.
MalformedStmts ==
    {<<tVar, tX, tEq, tSemi>>, <<tPrint, tSemi>>, <<tNum, tPlus, tSemi>>,
     <<tX, tEq, tSemi>>, <<tLP, tX, tSemi>>, <<tPrint, tX, tX, tSemi>>,
     <<tNum, tPlus, tNum, tEq, tNum, tSemi>>, <<tSemi>>}
RecoveryPrograms == {m \o t : m \in MalformedStmts, t \in Tails(MaxTail)}

\* Streams over a small alphabet, whatever their shape, and a few with the
\* error of an unterminated string.
\* The groups a stream opens.
Groups(s) == Cardinality({k \in 1..Len(s) : s[k].kind = "LeftParen"})
SmallAlphabet == {tVar, tX, tEq, tSemi, tPrint, tNum, tPlus, tLP, tRP, tBadChar}
AnyStreams ==
    {s \in UNION {[1..n -> SmallAlphabet] : n \in 0..MaxLen} : Groups(s) <= MaxGroups}
    \cup {<<tBadStr>>, <<tPrint, tBadStr>>, <<tNum, tPlus, tBadStr>>, <<tBadStr, tBadChar>>,
          <<tFor, tLP>>, <<tFor, tLP, tSemi, tSemi>>, <<tLB, tPrint, tX, tSemi>>,
          <<tIf, tLP, tX>>, <<tWhile>>}

\* Programs with a malformed statement, or a bad character, between
\* well-formed statements.
MixedPrograms ==
    {s \o m \o t : s \in TailStmts, m \in MalformedStmts, t \in Tails(MaxTail)}
    \cup {<<tPrint, tBadChar, tX, tSemi>> \o m \o t :
             m \in MalformedStmts, t \in Tails(MaxTail)}

\* `while (true) body`, bare and in a block.
WhileTrueStmts == {<<tWhile, tLP, tTrue, tRP>> \o b : b \in ForBodies}
BlockWhileTrueStmts == {<<tLB>> \o w \o <<tRB>> : w \in WhileTrueStmts}

\* Assignments to what is no bare variable: a literal, a binary, a group, a
\* unary.
NonTargets == {<<tNum>>, <<tNum, tPlus, tNum>>, <<tLP, tX, tRP>>, <<tMinus, tX>>, <<tBang, tX>>}
InvalidTargetStmts ==
    {l \o <<tEq>> \o r \o <<tSemi>> : l \in NonTargets, r \in {<<tNum>>, <<tX, tPlus, tNum>>}}

\* Programs ending in an expression with no `;`, at the top level and inside
\* a statement.
BareExprPrograms ==
    Exprs \cup {s \o e : s \in FewStmts, e \in FewExprs}
          \cup {<<tX, tWs>>, <<tIf, tLP, tX, tRP, tX>>, <<tLB, tX>>, <<tFor, tLP, tX>>,
                <<tWhile, tLP, tX, tRP, tNum, tPlus, tX>>}

\* Statements that fail and leave tokens for the recovery to skip, up to
\* each kind of token it stops at.
SkippedPrograms ==
    {<<tRP, tX, tClass, tX>>, <<tRP, tFun, tX>>, <<tPlus, tX, tReturn, tX, tSemi>>,
     <<tRP, tX, tNum, tIf, tLP, tX, tRP, tX, tSemi>>, <<tNum, tNum, tWhile, tLP>>,
     <<tRP, tRP, tFor, tLP, tSemi, tSemi, tRP, tX, tSemi>>, <<tRP, tX, tWs, tX, tVar, tX>>,
     <<tX, tSemi, tRP, tX, tBadChar, tNum, tSemi, tPrint, tX, tSemi>>,
     <<tRP, tX, tX, tX>>, <<tPrint, tX, tX, tPrint, tX, tSemi>>}

\* Programs with Error tokens among whitespace, comments and statements.
LexicalPrograms ==
    {<<tPrint, tWs, tBadChar, tX, tComment, tBadStr, tSemi>>,
     <<tBadChar, tWs, tRP, tComment, tBadStr, tX, tSemi>>,
     <<tWs, tBadStr, tComment>>, <<tX, tBadChar, tWs, tSemi, tBadChar>>}

Inputs ==
    LexicalPrograms \cup SkippedPrograms \cup BareExprPrograms \cup ValidPrograms \cup RecoveryPrograms \cup MixedPrograms \cup AnyStreams
                  \cup WhileTrueStmts \cup BlockWhileTrueStmts \cup InvalidTargetStmts

\* --------------------------------------------------------- specification
ScannerIdle ==
    /\ source = <<>>
    /\ cursor = 0
    /\ lexme_lo_bound = Span(0, 0)
    /\ done = FALSE
    /\ produced = <<>>
    /\ none_pulls = 0

\* The driver has built the parser (Parser::new) over the token stream.
Init ==
    /\ ScannerIdle
    /\ tokens \in {MkTokens(items) : items \in Inputs}
    /\ repl_mode \in BOOLEAN
    /\ phase = "parsing"
    /\ parser = ParserNew
    /\ stmts = <<>>
    /\ outcome = <<>>
    /\ interpreted = <<>>
    /\ reported = <<>>

\* parse_program, one turn of the loop.
ParseProgramStep ==
    /\ phase = "parsing"
    /\ ~is_at_end(parser)
    /\ \E r \in {program_step(parser)} :
        /\ parser' = r.p
        /\ stmts' = Append(stmts, r.stmt)
        /\ phase' = IF r.p.panicked THEN "panicked" ELSE "parsing"
    /\ UNCHANGED <<tokens, repl_mode, outcome, interpreted, reported>>
    /\ UNCHANGED scanner_vars

\* Parser::parse returning, once the loop of parse_program has ended.
Parse ==
    /\ phase = "parsing"
    /\ is_at_end(parser)
    /\ outcome' = parse(parser, stmts)
    /\ phase' = "parsed"
    /\ UNCHANGED <<tokens, repl_mode, parser, stmts, interpreted, reported>>
    /\ UNCHANGED scanner_vars

\* handle_parser_outcome on the outcome of the parse.
HandleParserOutcome ==
    /\ phase = "parsed"
    /\ \E fails \in BOOLEAN : \E h \in {handle_parser_outcome(outcome, fails)} :
        /\ interpreted' = h.interpreted
        /\ reported' = h.reported
    /\ phase' = "handled"
    /\ UNCHANGED <<tokens, repl_mode, parser, stmts, outcome>>
    /\ UNCHANGED scanner_vars

Next == ParseProgramStep \/ Parse \/ HandleParserOutcome

Spec == Init /\ [][Next]_vars


\* --------------------------------------------------------- parser claims
RECURSIVE HasDummy(_)
HasDummy(s) ==
    CASE s.kind = "Dummy" -> TRUE
      [] s.kind = "Block" -> \E i \in 1..Len(s.stmts) : HasDummy(s.stmts[i])
      [] s.kind = "If" -> HasDummy(s.then_branch) \/ HasDummy(s.else_branch)
      [] s.kind = "While" -> HasDummy(s.body)
      [] OTHER -> FALSE

ValidStreams == {MkTokens(items) : items \in ValidPrograms}
VarDeclStreams == {MkTokens(items) : items \in VarDecls}

\* C1: a program of the grammar without lexical errors parses to no
\* diagnostic and no Dummy statement, and a program that is one `var`
\* declaration parses to one Var statement spanning from `var` to `;`.
C1_ValidProgramsParseClean ==
    (phase = "parsed" /\ tokens \in ValidStreams) =>
        /\ outcome.diagnostics = <<>>
        /\ \A i \in 1..Len(outcome.stmts) : ~HasDummy(outcome.stmts[i])
        /\ tokens \in VarDeclStreams =>
              /\ Len(outcome.stmts) = 1
              /\ outcome.stmts[1].kind = "Var"
              /\ outcome.stmts[1].span = Span(0, tokens[Len(tokens) - 1].span.hi)

\* C2: once handle_parser_outcome has run, the interpreter was called, once
\* and on the parsed statements, exactly when there is no diagnostic;
\* otherwise every diagnostic was reported in list order; no statement handed
\* to the interpreter holds a Dummy; and nothing is interpreted or reported
\* before.
C2_InterpretOnlyWithoutDiagnostics ==
    /\ phase # "handled" => interpreted = <<>> /\ reported = <<>>
    /\ phase = "handled" =>
          IF outcome.diagnostics = <<>>
          THEN /\ interpreted = <<outcome.stmts>>
               /\ \A i \in 1..Len(outcome.stmts) : ~HasDummy(outcome.stmts[i])
          ELSE /\ interpreted = <<>>
               /\ reported = outcome.diagnostics

\* C2 witness: an outcome with two diagnostics and a Dummy was handled.
C2_Witness ==
    /\ phase = "handled"
    /\ Len(outcome.diagnostics) >= 2
    /\ \E i \in 1..Len(outcome.stmts) : outcome.stmts[i].kind = "Dummy"
    /\ reported = outcome.diagnostics

\* C3: the continuation flag is true only in REPL mode, with the current
\* token Eof, with exactly one diagnostic, and that one allowing
\* continuation.
C3_ContinuationOnlyIf ==
    phase \in {"parsed", "handled"} =>
        /\ outcome.continuation =>
              /\ repl_mode
              /\ parser.current_token.kind = "Eof"
              /\ Len(outcome.diagnostics) = 1
              /\ allows_continuation(outcome.diagnostics[1])
        /\ (~repl_mode \/ Len(outcome.diagnostics) # 1) => ~outcome.continuation

\* C3 witness: a parse in REPL mode that returned the flag set.
C3_Witness == phase = "parsed" /\ outcome.continuation

\* Where the first `;` of the stream is.
FirstSemicolon == CHOOSE k \in 1..Len(tokens) :
    /\ tokens[k].kind = "Semicolon"
    /\ \A j \in 1..(k - 1) : tokens[j].kind # "Semicolon"
SemicolonCount == Cardinality({k \in 1..Len(tokens) : tokens[k].kind = "Semicolon"})
RecoveryStreams == {MkTokens(items) : items \in RecoveryPrograms}

\* C8: a malformed top-level statement followed, after its `;`, by
\* well-formed statements: one diagnostic, a Dummy for the malformed
\* statement, the next statement starting right after that `;`, and every
\* following statement parsed into its node.
C8_RecoveryResumes ==
    (phase = "parsed" /\ tokens \in RecoveryStreams) =>
        /\ Len(outcome.diagnostics) = 1
        /\ Len(outcome.stmts) = SemicolonCount
        /\ outcome.stmts[1].kind = "Dummy"
        /\ \A i \in 2..Len(outcome.stmts) : outcome.stmts[i].kind \in {"Print", "Expr", "Var"}
        /\ Len(outcome.stmts) >= 2 =>
              outcome.stmts[2].span.lo = tokens[FirstSemicolon + 1].span.lo

Dummies(ss) == {i \in 1..Len(ss) : ss[i].kind = "Dummy"}
Structural(ds) == {i \in 1..Len(ds) : ds[i].kind # "ScannerError"}

\* C9: the statements hold as many Dummy statements as there are diagnostics
\* that are no ScannerError; a Dummy has a zero-width span; the statements
\* stand in source order (none ends after a later one ends, and those that are
\* no Dummy do not overlap); a turn of the parse_program loop pushes one
\* statement, a Dummy exactly when it recorded one such diagnostic; and the
\* outcome holds these statements and diagnostics.
C9_OneDummyPerFailure ==
    /\ [](/\ Cardinality(Dummies(stmts)) = Cardinality(Structural(parser.diagnostics))
          /\ \A i \in Dummies(stmts) : stmts[i].span.lo = stmts[i].span.hi
          /\ \A i, j \in 1..Len(stmts) :
                i < j => /\ stmts[i].span.hi <= stmts[j].span.hi
                         /\ (i \notin Dummies(stmts) /\ j \notin Dummies(stmts))
                               => stmts[i].span.hi <= stmts[j].span.lo
          /\ phase \in {"parsed", "handled"} =>
                outcome.stmts = stmts /\ outcome.diagnostics = parser.diagnostics)
    /\ [][stmts' # stmts =>
            /\ Len(stmts') = Len(stmts) + 1
            /\ SubSeq(stmts', 1, Len(stmts)) = stmts
            /\ Cardinality(Structural(parser'.diagnostics)) =
                 Cardinality(Structural(parser.diagnostics))
                   + (IF stmts'[Len(stmts')].kind = "Dummy" THEN 1 ELSE 0)]_vars

\* C9 witness: a parse that pushed a statement, then a Dummy, then a
\* statement, and that holds a ScannerError too.
C9_Witness ==
    /\ phase = "parsed"
    /\ Len(stmts) >= 3
    /\ stmts[1].kind # "Dummy" /\ stmts[2].kind = "Dummy" /\ stmts[3].kind # "Dummy"
    /\ \E i \in 1..Len(parser.diagnostics) : parser.diagnostics[i].kind = "ScannerError"

\* The parser standing on token k of the stream.
At(k) ==
    [scanner |-> k + 1, current_token |-> tokens[k], prev_token |-> tokens[k - 1],
     diagnostics |-> <<>>, panicked |-> FALSE]

ForCases ==
    {[init |-> init, cond |-> cond, incr |-> incr, body |-> body] :
        init \in ForInits, cond \in ForConds, incr \in ForIncrs, body \in ForBodies}
CaseItems(c) == ForItems(c.init, c.cond, c.incr, c.body)
StartsWith(c) ==
    /\ Len(tokens) > Len(CaseItems(c))
    /\ SubSeq(tokens, 1, Len(CaseItems(c))) = SubSeq(MkTokens(CaseItems(c)), 1, Len(CaseItems(c)))

\* The clauses and the body of a case, parsed on their own where they stand
\* in the stream.
InitAt(c) == 3
CondAt(c) == 3 + Len(c.init)
IncrAt(c) == CondAt(c) + Len(c.cond) + 1
BodyAt(c) == IncrAt(c) + Len(c.incr) + 1
InitNode(c) ==
    IF c.init[1].kind = "Var" THEN parse_var_decl(At(InitAt(c))).val
    ELSE parse_expr_stmt(At(InitAt(c))).val
CondNode(c) == parse_expr(At(CondAt(c))).val
IncrNode(c) == parse_expr(At(IncrAt(c))).val
BodyNode(c) == parse_stmt(At(BodyAt(c))).val

\* `while (cond) { body ; incr }`, the block only with an increment.
IsWhileOf(s, c) ==
    /\ s.kind = "While"
    /\ IF c.cond = <<>> THEN s.cond.kind = "Lit" /\ s.cond.value = "true"
       ELSE s.cond = CondNode(c)
    /\ IF c.incr = <<>> THEN s.body = BodyNode(c)
       ELSE /\ s.body.kind = "Block"
            /\ Len(s.body.stmts) = 2
            /\ s.body.stmts[1] = BodyNode(c)
            /\ s.body.stmts[2].kind = "Expr"
            /\ s.body.stmts[2].expr = IncrNode(c)

\* C10: `for (init; cond; incr) body` parses to
\* `{ init ; while (cond) { body ; incr } }`: the body and the increment in a
\* block of two statements only with an increment, that in a While on the
\* condition, the initializer and the While in a block of two statements only
\* with an initializer.
C10_ForDesugars ==
    \A c \in ForCases :
        (phase = "parsed" /\ StartsWith(c)) =>
            /\ tokens = MkTokens(CaseItems(c)) =>
                  outcome.diagnostics = <<>> /\ Len(outcome.stmts) = 1
            /\ IF c.init = <<tSemi>> THEN IsWhileOf(outcome.stmts[1], c)
               ELSE /\ outcome.stmts[1].kind = "Block"
                    /\ Len(outcome.stmts[1].stmts) = 2
                    /\ outcome.stmts[1].stmts[1] = InitNode(c)
                    /\ IsWhileOf(outcome.stmts[1].stmts[2], c)

\* C10 witness: `for (var x = 1; x < 1; x = x + 1) print x;` was parsed.
C10_Witness ==
    /\ phase = "parsed"
    /\ tokens = MkTokens(ForItems(<<tVar, tX, tEq, tNum, tSemi>>, <<tX, tLess, tNum>>,
                                  <<tX, tEq, tX, tPlus, tNum>>, <<tPrint, tX, tSemi>>))
    /\ Len(outcome.stmts) = 1
    /\ outcome.stmts[1].kind = "Block"


\* `for (;;) body` over the bodies.
ForEverCases == {c \in ForCases : c.init = <<tSemi>> /\ c.cond = <<>> /\ c.incr = <<>>}

\* A While on a literal `true` whose body is the statement parsed at token k.
IsWhileTrue(s, k) ==
    /\ s.kind = "While"
    /\ s.cond.kind = "Lit" /\ s.cond.value = "true"
    /\ s.body = parse_stmt(At(k)).val

\* The synthetic condition stands, zero-width, at the start of the `;` that
\* closes the empty condition clause (the fourth token of `for ( ; ; )`).
SyntheticCondAt(s) == s.cond.span = Span(tokens[4].span.lo, tokens[4].span.lo)

\* What `while (true) body` and `{ while (true) body }` parse to: a While, and
\* a Block of that one While.
WhileTrueParses ==
    /\ \A b \in ForBodies :
          (phase = "parsed" /\ tokens = MkTokens(<<tWhile, tLP, tTrue, tRP>> \o b)) =>
              /\ Len(outcome.stmts) = 1
              /\ IsWhileTrue(outcome.stmts[1], 5)
    /\ \A b \in ForBodies :
          (phase = "parsed"
             /\ tokens = MkTokens(<<tLB, tWhile, tLP, tTrue, tRP>> \o b \o <<tRB>>)) =>
              /\ Len(outcome.stmts) = 1
              /\ outcome.stmts[1].kind = "Block"
              /\ Len(outcome.stmts[1].stmts) = 1
              /\ IsWhileTrue(outcome.stmts[1].stmts[1], 6)

\* C11 as stated: `for (;;) body` parses to the shape of
\* `{ while (true) body }`, a Block of one While on a literal `true`, the
\* condition zero-width at the omitted clause.
C11_ForEverIsBlockOfWhile ==
    \A c \in ForEverCases :
        (phase = "parsed" /\ tokens = MkTokens(CaseItems(c))) =>
            /\ Len(outcome.stmts) = 1
            /\ outcome.stmts[1].kind = "Block"
            /\ Len(outcome.stmts[1].stmts) = 1
            /\ IsWhileTrue(outcome.stmts[1].stmts[1], BodyAt(c))
            /\ SyntheticCondAt(outcome.stmts[1].stmts[1])

\* C11: `for (;;) body` parses to the shape of `while (true) body`, a While
\* on a literal `true` with no block around it (the shape `{ while (true)
\* body }` parses to is a Block of that While); the condition is zero-width at
\* the start of the `;` that closes the empty condition clause, not at the
\* `for` token; the While spans from `for` to the end of the body.
C11_ForEverIsWhile ==
    /\ WhileTrueParses
    /\ \A c \in ForEverCases :
          (phase = "parsed" /\ tokens = MkTokens(CaseItems(c))) =>
              /\ outcome.diagnostics = <<>>
              /\ Len(outcome.stmts) = 1
              /\ IsWhileTrue(outcome.stmts[1], BodyAt(c))
              /\ SyntheticCondAt(outcome.stmts[1])
              /\ outcome.stmts[1].cond.span.lo # tokens[1].span.lo
              /\ outcome.stmts[1].span = to(tokens[1].span, outcome.stmts[1].body.span)

\* C11 witness: `for (;;) print x;` was parsed to a While.
C11_Witness ==
    /\ phase = "parsed"
    /\ tokens = MkTokens(<<tFor, tLP, tSemi, tSemi, tRP, tPrint, tX, tSemi>>)
    /\ outcome.stmts[1].kind = "While"
    /\ outcome.stmts[1].cond.span = Span(9, 9)


InvalidTargetStreams == {MkTokens(items) : items \in InvalidTargetStmts}
FirstEqual == CHOOSE k \in 1..Len(tokens) :
    /\ tokens[k].kind = "Equal"
    /\ \A j \in 1..(k - 1) : tokens[j].kind # "Equal"

\* The span a diagnostic points at.
primary_span(d) == IF d.kind = "UnexpectedToken" THEN d.offending.span ELSE d.span

\* An assignment to what is no bare variable fails with one diagnostic on the
\* span of the left side, raised once the value was parsed (the parser stood
\* on the `;`) and with the statement alone replaced by a Dummy.
InvalidTargetOneDiagnostic ==
    (phase = "parsed" /\ tokens \in InvalidTargetStreams) =>
        /\ Len(outcome.diagnostics) = 1
        /\ primary_span(outcome.diagnostics[1]) = Span(0, tokens[FirstEqual - 1].span.hi)
        /\ outcome.diagnostics[1].message = "Invalid assignment target"
        /\ outcome.stmts = <<[kind |-> "Dummy", span |-> Span(tokens[Len(tokens)].span.hi,
                                                                tokens[Len(tokens)].span.hi)]>>
        /\ parse_expr_stmt(ParserNew).p.current_token.kind = "Semicolon"

\* C13 as stated: an assignment whose left side is a literal, a group, a
\* unary or a binary fails with exactly one diagnostic, of the UnexpectedToken
\* class, on exactly the span of the left side, raised after the value was
\* parsed.
C13_InvalidTargetUnexpectedToken ==
    /\ InvalidTargetOneDiagnostic
    /\ (phase = "parsed" /\ tokens \in InvalidTargetStreams) =>
          outcome.diagnostics[1].kind = "UnexpectedToken"


\* C13: an assignment whose left side is a literal, a group, a unary or a
\* binary fails with exactly one diagnostic, a ParseError::Error with the
\* message `Invalid assignment target` (no UnexpectedToken: it holds a span
\* and no offending token), on exactly the span of the left side, raised
\* after the value was parsed and with no recovery inside the expression.
C13_InvalidTargetError ==
    /\ InvalidTargetOneDiagnostic
    /\ (phase = "parsed" /\ tokens \in InvalidTargetStreams) =>
          outcome.diagnostics[1] =
              [kind |-> "Error", message |-> "Invalid assignment target",
               span |-> Span(0, tokens[FirstEqual - 1].span.hi)]

\* C13 witness: `1 + 2 = 3;` was parsed to one diagnostic covering `1 + 2`.
C13_Witness ==
    /\ phase = "parsed"
    /\ tokens = MkTokens(<<tNum, tPlus, tNum, tEq, tNum, tSemi>>)
    /\ Len(outcome.diagnostics) = 1
    /\ outcome.diagnostics[1].span = Span(0, 8)


\* The child nodes of a statement or expression node.
ChildFields ==
    {"expr", "operand", "left", "right", "value", "init", "cond", "then_branch",
     "else_branch", "body"}
Children(n) ==
    IF n.kind \in {"Lit", "Dummy", "None"} THEN {}
    ELSE ({n[f] : f \in ChildFields \cap DOMAIN n} \ {None})
         \cup (IF "stmts" \in DOMAIN n THEN {n.stmts[i] : i \in 1..Len(n.stmts)} ELSE {})

RECURSIVE SpansNest(_)
SpansNest(n) ==
    \A c \in Children(n) :
        /\ n.span.lo <= c.span.lo
        /\ c.span.hi <= n.span.hi
        /\ SpansNest(c)

\* C12: in every tree the parser returns, the span of a node contains the
\* span of each of its child nodes, the Block, While and Expr nodes of the
\* `for` desugaring included.
C12_ParentSpanContainsChildren ==
    phase = "parsed" => \A i \in 1..Len(outcome.stmts) : SpansNest(outcome.stmts[i])


\* Where the last token the parser does not skip, Eof aside, ends.
Significant == {k \in 1..Len(tokens) :
                  tokens[k].kind \notin {"Eof", "Whitespace", "Comment", "Error"}}
LastSignificantEnd == tokens[CHOOSE k \in Significant : \A j \in Significant : j <= k].span.hi

\* Every debug print of a tree is made in REPL mode, of an expression that
\* ends where the input ends, and with that expression's span.
RECURSIVE DebugPrintsOnlyAtEnd(_)
DebugPrintsOnlyAtEnd(n) ==
    /\ (n.kind = "Print" /\ n.debug) =>
          /\ repl_mode
          /\ n.span = n.expr.span
          /\ n.expr.span.hi = LastSignificantEnd
    /\ \A c \in Children(n) : DebugPrintsOnlyAtEnd(c)

\* C14: an expression followed by the end of input parses, in REPL mode, to a
\* Print with debug = true and the expression's span and to no diagnostic, and
\* in file mode to the missing-`;` diagnostic; an expression followed by `;`
\* parses to an Expr statement in both modes; and no tree holds a debug Print
\* made otherwise.
C14_DebugPrintOnlyReplAtEnd ==
    /\ \A e \in Exprs :
          (phase = "parsed" /\ tokens = MkTokens(e)) =>
              IF repl_mode
              THEN /\ outcome.diagnostics = <<>>
                   /\ outcome.stmts =
                        <<[kind |-> "Print", expr |-> parse_expr(ParserNew).val,
                           debug |-> TRUE, span |-> Span(0, tokens[Len(e)].span.hi)]>>
              ELSE /\ Len(outcome.diagnostics) = 1
                   /\ outcome.diagnostics[1].kind = "UnexpectedToken"
                   /\ outcome.diagnostics[1].expected = "Semicolon"
                   /\ outcome.diagnostics[1].offending.kind = "Eof"
                   /\ Len(outcome.stmts) = 1
                   /\ outcome.stmts[1].kind = "Dummy"
    /\ \A e \in Exprs :
          (phase = "parsed" /\ tokens = MkTokens(e \o <<tSemi>>)) =>
              /\ outcome.diagnostics = <<>>
              /\ outcome.stmts =
                   <<[kind |-> "Expr", expr |-> parse_expr(ParserNew).val,
                      span |-> Span(0, tokens[Len(e) + 1].span.hi)]>>
    /\ phase = "parsed" =>
          \A i \in 1..Len(outcome.stmts) : DebugPrintsOnlyAtEnd(outcome.stmts[i])

\* C14 witness: `1 + x` was parsed in REPL mode to a debug Print.
C14_Witness ==
    /\ phase = "parsed"
    /\ repl_mode
    /\ tokens = MkTokens(<<tNum, tPlus, tX>>)
    /\ outcome.stmts[1].kind = "Print"
    /\ outcome.stmts[1].debug


\* The tokens the parser installs as current: those advance does not skip.
Installed == {k \in 1..Len(tokens) : tokens[k].kind \notin {"Whitespace", "Comment", "Error"}}
PrevInstalled(k) ==
    IF \E j \in Installed : j < k
    THEN tokens[CHOOSE j \in Installed : j < k /\ \A i \in Installed : i < k => i <= j]
    ELSE TokenDummy

\* The parser standing on the installed token k, whatever came before.
StandingAt(k) ==
    [scanner |-> k + 1, current_token |-> tokens[k], prev_token |-> PrevInstalled(k),
     diagnostics |-> <<>>, panicked |-> FALSE]

SyncKinds == {"Class", "For", "Fun", "If", "Print", "Return", "Var", "While"}
\* Standing on token j, the recovery stops.
StopsAt(j) ==
    \/ tokens[j].kind = "Eof"
    \/ PrevInstalled(j).kind = "Semicolon"
    \/ tokens[j].kind \in SyncKinds

\* synchronize called on token k: nothing consumed on Eof; else the parser
\* stands on the first installed token after k where the recovery stops.
SynchronizeStopsFirst(k) ==
    IF tokens[k].kind = "Eof"
    THEN synchronize(StandingAt(k)) = StandingAt(k)
    ELSE \E j \in Installed :
            /\ j > k
            /\ StopsAt(j)
            /\ \A i \in Installed : (k < i /\ i < j) => ~StopsAt(i)
            /\ synchronize(StandingAt(k)).current_token = tokens[j]
            /\ synchronize(StandingAt(k)).prev_token = PrevInstalled(j)
            /\ synchronize(StandingAt(k)).scanner = j + 1

\* C15: synchronize consumes nothing on Eof, else at least one token, and
\* returns at the first token after that where the current token is Eof, the
\* previous one is `;`, or the current one is class, for, fun, if, print,
\* return, var or while; every turn of the parse_program loop consumes at
\* least one token and leaves the parser there when it recovered; the parser
\* never pulls more than the stream holds, so the parse ends after at most as
\* many turns as there are tokens.
C15_SynchronizeAdvances ==
    /\ [](\A k \in Installed : SynchronizeStopsFirst(k))
    /\ [](/\ parser.scanner <= Len(tokens) + 1
          /\ Len(stmts) < parser.scanner
          /\ phase # "panicked")
    /\ [][stmts' # stmts =>
            /\ parser'.scanner > parser.scanner
            /\ stmts'[Len(stmts')].kind = "Dummy" =>
                  \/ is_at_end(parser')
                  \/ parser'.prev_token.kind = "Semicolon"
                  \/ parser'.current_token.kind \in SyncKinds]_vars

\* C15 witness: a recovery that skipped tokens and stopped, before the end, at
\* a token that starts a statement and follows no `;`.
C15_Witness ==
    /\ phase = "parsing"
    /\ stmts # <<>>
    /\ stmts[Len(stmts)].kind = "Dummy"
    /\ parser.current_token.kind \in {"Class", "Fun", "Return", "If", "While", "For"}
    /\ parser.prev_token.kind # "Semicolon"
    /\ parser.scanner > 3


IsErrorToken(t) == t.kind = "Error"
IsScannerError(d) == d.kind = "ScannerError"
\* The Error tokens pulled so far, in scan order.
ErrorsPulled == SelectSeq(SubSeq(tokens, 1, parser.scanner - 1), IsErrorToken)

\* C16: the ScannerError diagnostics of the list are, in scan order, one for
\* each Error token pulled, with its message and span; and neither the current
\* nor the previous token is ever an Error, a Comment or a Whitespace.
C16_ErrorTokensBecomeDiagnostics ==
    /\ SelectSeq(parser.diagnostics, IsScannerError) =
         [i \in 1..Len(ErrorsPulled) |->
             [kind |-> "ScannerError", message |-> ErrorsPulled[i].lexme,
              span |-> ErrorsPulled[i].span]]
    /\ parser.current_token.kind \notin {"Error", "Comment", "Whitespace"}
    /\ parser.prev_token.kind \notin {"Error", "Comment", "Whitespace"}
    /\ phase \in {"parsed", "handled"} =>
          /\ parser.scanner = Len(tokens) + 1
          /\ outcome.diagnostics = parser.diagnostics

\* C16 witness: a parse that pulled a Whitespace, a Comment and two Error
\* tokens of different messages, and recorded a structural error between
\* their two diagnostics.
C16_Witness ==
    /\ phase = "parsed"
    /\ Len(ErrorsPulled) = 2
    /\ ErrorsPulled[1].lexme # ErrorsPulled[2].lexme
    /\ \E k \in 1..Len(tokens) : tokens[k].kind = "Whitespace"
    /\ \E k \in 1..Len(tokens) : tokens[k].kind = "Comment"
    /\ Len(outcome.diagnostics) = 3
    /\ outcome.diagnostics[2].kind = "UnexpectedToken"


\* C17: on every token stream ending in one Eof, the parser never calls
\* advance with the current token Eof: the scanner is never pulled after it
\* yielded Eof, so the `Cannot advance past Eof.` panic is not reached, in
\* the parser as built, after any turn of the parse_program loop and in what
\* the next turn would do.
C17_NeverAdvancesPastEof ==
    /\ ~parser.panicked
    /\ phase # "panicked"
    /\ parser.scanner <= Len(tokens) + 1
    /\ (phase = "parsing" /\ ~is_at_end(parser)) => ~program_step(parser).p.panicked
    /\ tokens[Len(tokens)].kind = "Eof"
    /\ \A k \in 1..(Len(tokens) - 1) : tokens[k].kind # "Eof"

\* C17 witness: a parse of an input that ends inside a `for` header ended at
\* Eof, with the error raised on the Eof token.
C17_Witness ==
    /\ phase = "parsed"
    /\ tokens[1].kind = "For"
    /\ is_at_end(parser)
    /\ outcome.diagnostics # <<>>
    /\ outcome.diagnostics[Len(outcome.diagnostics)].kind = "UnexpectedToken"
    /\ outcome.diagnostics[Len(outcome.diagnostics)].offending.kind = "Eof"

====
